---- MODULE Spec2Model ----
\* Verification model of gocells: the payload waiter (cells/payload.go),
\* the pair behavior (behaviors/pair.go) and the counter behavior as it is
\* driven by its unit test (behaviors/counter_test.go).
EXTENDS Integers, Sequences, FiniteSets, TLC

\* ---------------------------------------------------------------- bounds

NumSetters == 2
NumWaiters == 2
\* pair behavior: the clock horizon, the number of events the environment
\* emits to the cell, the number of distinct criterion data values, and the
\* duration the behavior is constructed with
MaxTime == 5
MaxEvents == 3
NumData == 2
Duration == 2
\* counter behavior: the number of count and reset events and the number
\* of snapshot requests the test driver emits
MaxCounterEvents == 3
MaxRequests == 1

\* payloads made by NewPayload and Apply
MaxPayloads == 3

\* ------------------------------------------------------------- constants

\* make(chan Payload, 1): the capacity of payloadWaiter.payloadc.
ChanCap == 1

Nil == 0
NoErr == "nil"
ErrCanceled == "context canceled"

Setters == 1..NumSetters
Waiters == 1..NumWaiters

\* Every Set caller brings a payload of its own, different from the others'.
PayloadOf(s) == s

VARIABLES
  \* payloadWaiter
  payloadc,      \* the buffered channel w.payloadc, a sequence of payloads
  once,          \* w.once: [done |-> 0/1, m |-> 0 or the goroutine holding the mutex]
  setPc,         \* per Set caller: "idle", "lock", "send", "store", "unlock",
                 \* "ret"
  setArg,        \* per Set caller: the payload p of the running call
  waitPc,        \* per Wait caller: "idle", "select", "done"
  waitCtx,       \* per Wait caller: "nil", "live" or "cancelled"
  waitRes,       \* per Wait caller: the returned [pl, err]
  \* history of the waiter (observations only)
  firstSet,      \* payload of the first Set call to enter the once section
  sends,         \* number of completed channel sends
  setsDone,      \* payloads of the Set calls that have returned
  waitAtCall,    \* per Wait caller: was the context already cancelled at the call
  waitSaw,       \* per Wait called with a cancelled context: length of
                 \* payloadc when its select chose
  waitLeft       \* and the length of payloadc after its select chose

VARIABLES
  \* pairBehavior and its cell
  now,           \* the clock read by time.Now()
  hit,           \* b.hit: Nil or the time of the first hit
  hitData,       \* b.hitData
  timeout,       \* b.timeout: Nil or the index of a timer in timers
  timers,        \* the timers made by time.AfterFunc: [state, when, first]
  queue,         \* events emitted to the cell and not yet processed
  emitted,       \* events the behavior emitted to its subscribers
  \* history of the pair behavior (observations only)
  nExt,          \* number of events the environment has emitted to the cell
  hits,          \* one record per first hit, completed when it is resolved
  last           \* the state ProcessEvent found at its latest call

pvars == <<now, hit, hitData, timeout, timers, queue, emitted, nExt, hits, last>>

VARIABLES
  \* counter cell and the code driving it
  cqueue,        \* events emitted to the counter cell and not yet processed
  counters,      \* the counter mapping of the behavior: key -> count
  creqs,         \* the snapshot requests: [waiter, ctx, state, result, at]
  \* history of the counter (observations only)
  clog           \* the count and reset events emitted so far, in order

cvars == <<cqueue, counters, creqs, clog>>

VARIABLES
  \* a payload and the typed accessors called on it
  stored,        \* the values of the payload under test: key -> [type, val]
  lastGet        \* the latest accessor call: [acc, key, res]

avars == <<stored, lastGet>>

VARIABLES
  \* payloads, the mappings they are made from and the code holding both
  heap,          \* the key/value maps in memory, by reference; heap[1] is
                 \* the mapping owned by the caller
  pls,           \* the payloads made: [values |-> reference of p.values]
                 \* with, as history, [made]: the entries at
                 \* construction
  slice,         \* the slice the latest Keys call returned, as the caller
                 \* has it now; the caller lets go of it at its next
                 \* NewPayload or Apply call and when it writes to its
                 \* mapping
  lastCall       \* the latest NewPayload, Apply or Keys call, when the
                 \* caller has not written to its mapping since:
                 \* [op, p, before, arg, res]

yvars == <<heap, pls, slice, lastCall>>

wvars == <<payloadc, once, setPc, setArg, waitPc, waitCtx, waitRes,
           firstSet, sends, setsDone, waitAtCall, waitSaw, waitLeft>>

\* ------------------------------------------------------- payload waiter

\* NewPayloadWaiter: an empty channel of capacity 1 and a fresh sync.Once.
NewPayloadWaiter == [payloadc |-> <<>>, once |-> [done |-> 0, m |-> 0]]

\* sync.Once.Do, fast path: a caller that reads done = 1 returns at once.
OnceFastPath(done) == done = 1

OnceSlowRun_NoRecheck(done) == TRUE
\* sync.Once.doSlow: with the mutex held, f runs only if done is still 0.
OnceSlowRun(done) == done = 0

ChanCanSend_Unbuffered(c) == Len(c) < 0
\* w.payloadc <- p can proceed only while the buffer has room.
ChanCanSend(c) == Len(c) < ChanCap

\* pl := <-w.payloadc takes the head out of the channel.
ChanAfterRecv(c) == Tail(c)

\* if ctx == nil { ctx = context.Background() }
CtxOrBackground(c) == IF c = "nil" THEN "background" ELSE c

CtxDone_Always(c) == TRUE
\* <-ctx.Done() is ready exactly when the context is cancelled or expired;
\* the background context is never done.
CtxDone(c) == CtxOrBackground(c) = "cancelled"

\* case pl := <-w.payloadc: return pl, nil
RecvResult(c) == [pl |-> Head(c), err |-> NoErr]

DoneResult_NoErr == [pl |-> Nil, err |-> NoErr]
\* case <-ctx.Done(): err := ctx.Err(); return nil, err
DoneResult == [pl |-> Nil, err |-> ErrCanceled]

InitWaiter ==
  /\ payloadc = NewPayloadWaiter.payloadc
  /\ once = NewPayloadWaiter.once
  /\ setPc = [s \in Setters |-> "idle"]
  /\ setArg = [s \in Setters |-> Nil]
  /\ waitPc = [w \in Waiters |-> "idle"]
  /\ waitCtx = [w \in Waiters |-> "nil"]
  /\ waitRes = [w \in Waiters |-> [pl |-> Nil, err |-> NoErr]]
  /\ firstSet = Nil
  /\ sends = 0
  /\ setsDone = {}
  /\ waitAtCall = [w \in Waiters |-> FALSE]
  /\ waitSaw = [w \in Waiters |-> 0]
  /\ waitLeft = [w \in Waiters |-> 0]

\* A goroutine calls w.Set(p): once.Do loads done atomically and returns
\* at once when it reads 1, else it goes on to doSlow.
SetOnceDo(s) ==
  /\ setPc[s] = "idle"
  /\ setArg' = [setArg EXCEPT ![s] = PayloadOf(s)]
  /\ IF OnceFastPath(once.done)
       THEN /\ setPc' = [setPc EXCEPT ![s] = "ret"]
            /\ setsDone' = setsDone \cup {PayloadOf(s)}
       ELSE /\ setPc' = [setPc EXCEPT ![s] = "lock"]
            /\ UNCHANGED setsDone
  /\ UNCHANGED <<payloadc, once, waitPc, waitCtx, waitRes, firstSet, sends,
                 waitAtCall, waitSaw, waitLeft>>
  /\ UNCHANGED <<pvars, cvars, avars, yvars>>

\* once.doSlow: o.m.Lock(), then the second check of done under the lock:
\* f runs when done is still 0, otherwise only the deferred unlock is left.
SetOnceLock(s) ==
  /\ setPc[s] = "lock"
  /\ once.m = 0
  /\ firstSet' = IF firstSet = Nil THEN setArg[s] ELSE firstSet
  /\ once' = [once EXCEPT !.m = s]
  /\ IF OnceSlowRun(once.done)
       THEN setPc' = [setPc EXCEPT ![s] = "send"]
       ELSE setPc' = [setPc EXCEPT ![s] = "unlock"]
  /\ UNCHANGED <<payloadc, setArg, waitPc, waitCtx, waitRes, sends, setsDone,
                 waitAtCall, waitSaw, waitLeft>>
  /\ UNCHANGED <<pvars, cvars, avars, yvars>>

\* The function passed to once.Do: w.payloadc <- p.
SetSend(s) ==
  /\ setPc[s] = "send"
  /\ ChanCanSend(payloadc)
  /\ payloadc' = Append(payloadc, setArg[s])
  /\ sends' = sends + 1
  /\ setPc' = [setPc EXCEPT ![s] = "store"]
  /\ UNCHANGED <<once, setArg, waitPc, waitCtx, waitRes, firstSet,
                 setsDone, waitAtCall, waitSaw, waitLeft>>
  /\ UNCHANGED <<pvars, cvars, avars, yvars>>

\* The deferred o.done.Store(1): it runs before the deferred unlock, so
\* done is 1 while the mutex is still held.
SetOnceStore(s) ==
  /\ setPc[s] = "store"
  /\ once' = [once EXCEPT !.done = 1]
  /\ setPc' = [setPc EXCEPT ![s] = "unlock"]
  /\ UNCHANGED <<payloadc, setArg, waitPc, waitCtx, waitRes, firstSet,
                 sends, setsDone, waitAtCall, waitSaw, waitLeft>>
  /\ UNCHANGED <<pvars, cvars, avars, yvars>>

\* The deferred o.m.Unlock(); Set returns.
SetOnceUnlock(s) ==
  /\ setPc[s] = "unlock"
  /\ once' = [once EXCEPT !.m = 0]
  /\ setPc' = [setPc EXCEPT ![s] = "ret"]
  /\ setsDone' = setsDone \cup {setArg[s]}
  /\ UNCHANGED <<payloadc, setArg, waitPc, waitCtx, waitRes, firstSet,
                 sends, waitAtCall, waitSaw, waitLeft>>
  /\ UNCHANGED <<pvars, cvars, avars, yvars>>

\* A goroutine calls w.Wait(ctx) with a nil, a live or a cancelled context.
WaitCall(w, c) ==
  /\ waitPc[w] = "idle"
  /\ waitPc' = [waitPc EXCEPT ![w] = "select"]
  /\ waitCtx' = [waitCtx EXCEPT ![w] = c]
  /\ waitAtCall' = [waitAtCall EXCEPT ![w] = (c = "cancelled")]
  /\ UNCHANGED <<payloadc, once, setPc, setArg, waitRes, firstSet,
                 sends, setsDone, waitSaw, waitLeft>>
  /\ UNCHANGED <<pvars, cvars, avars, yvars>>

\* The caller's context is cancelled or expires while Wait is selecting.
CtxCancel(w) ==
  /\ waitPc[w] = "select"
  /\ waitCtx[w] = "live"
  /\ waitCtx' = [waitCtx EXCEPT ![w] = "cancelled"]
  /\ UNCHANGED <<payloadc, once, setPc, setArg, waitPc, waitRes,
                 firstSet, sends, setsDone, waitAtCall, waitSaw, waitLeft>>
  /\ UNCHANGED <<pvars, cvars, avars, yvars>>

\* select chooses case pl := <-w.payloadc.
WaitRecv(w) ==
  /\ waitPc[w] = "select"
  /\ Len(payloadc) > 0
  /\ waitRes' = [waitRes EXCEPT ![w] = RecvResult(payloadc)]
  /\ payloadc' = ChanAfterRecv(payloadc)
  /\ waitPc' = [waitPc EXCEPT ![w] = "done"]
  /\ waitSaw' = [waitSaw EXCEPT ![w] = IF waitAtCall[w] THEN Len(payloadc) ELSE 0]
  /\ waitLeft' = [waitLeft EXCEPT ![w] = IF waitAtCall[w] THEN Len(payloadc') ELSE 0]
  /\ UNCHANGED <<once, setPc, setArg, waitCtx, firstSet, sends,
                 setsDone, waitAtCall>>
  /\ UNCHANGED <<pvars, cvars, avars, yvars>>

\* select chooses case <-ctx.Done(). When both cases are ready the Go
\* runtime picks either, so WaitRecv and WaitDone are both enabled.
WaitDone(w) ==
  /\ waitPc[w] = "select"
  /\ CtxDone(waitCtx[w])
  /\ waitRes' = [waitRes EXCEPT ![w] = DoneResult]
  /\ waitPc' = [waitPc EXCEPT ![w] = "done"]
  /\ waitSaw' = [waitSaw EXCEPT ![w] = IF waitAtCall[w] THEN Len(payloadc) ELSE 0]
  /\ waitLeft' = [waitLeft EXCEPT ![w] = IF waitAtCall[w] THEN Len(payloadc) ELSE 0]
  /\ UNCHANGED <<payloadc, once, setPc, setArg, waitCtx, firstSet,
                 sends, setsDone, waitAtCall>>
  /\ UNCHANGED <<pvars, cvars, avars, yvars>>

SetStep(s) == SetOnceLock(s) \/ SetSend(s) \/ SetOnceStore(s) \/ SetOnceUnlock(s)

WaitStep(w) == WaitRecv(w) \/ WaitDone(w)

NextWaiter ==
  \/ \E s \in Setters : SetOnceDo(s)
  \/ \E s \in Setters : SetOnceLock(s)
  \/ \E s \in Setters : SetSend(s)
  \/ \E s \in Setters : SetOnceStore(s)
  \/ \E s \in Setters : SetOnceUnlock(s)
  \/ \E w \in Waiters, c \in {"nil", "live", "cancelled"} : WaitCall(w, c)
  \/ \E w \in Waiters : CtxCancel(w)
  \/ \E w \in Waiters : WaitRecv(w)
  \/ \E w \in Waiters : WaitDone(w)

\* ---------------------------------------------------------- payload

\* payload.GetTime: the value under key and true when the key is present
\* and holds a time.Time; the zero time and false otherwise.
GetTime(p, key) ==
  IF key \in DOMAIN p /\ p[key].type = "time"
    THEN <<p[key].val, TRUE>>
    ELSE <<Nil, FALSE>>

\* -------------------------------------------------------- pair behavior

EventPairTopic == "pair"
EventPairTimeoutTopic == "pair-timeout"

Data == 1..NumData
Times == 1..MaxTime

TimeValue(t) == [type |-> "time", val |-> t]
DataValue(d) == [type |-> "data", val |-> d]

\* The events other code emits to the cell: events the criterion matches,
\* with the data it returns for them, events it does not match, and an
\* event of the timeout topic that carries no first-hit time.
ExternalEvents ==
  {[topic |-> "event", payload |-> [match |-> TRUE, data |-> d]] : d \in Data}
    \cup {[topic |-> "event", payload |-> [match |-> FALSE, data |-> 1]]}
    \cup {[topic |-> EventPairTimeoutTopic,
           payload |-> [first |-> [type |-> "string", val |-> 0]]]}

matches_Any(event, priorHitData) == <<event.payload.data, TRUE>>
\* The PairCriterion the behavior is constructed with: it reads its answer
\* from the event and returns (hitData, ok).
matches(event, priorHitData) == <<event.payload.data, event.payload.match>>

\* The closure passed to time.AfterFunc emits the timeout-check event to
\* the own cell with the first-hit time captured in now.
TimerEvent_ReadsHit(first) ==
  [topic |-> EventPairTimeoutTopic, payload |-> [first |-> TimeValue(hit)]]
TimerEvent_When(first) ==
  [topic |-> EventPairTimeoutTopic,
   payload |-> [first |-> TimeValue(first + Duration)]]
TimerEvent(first) ==
  [topic |-> EventPairTimeoutTopic, payload |-> [first |-> TimeValue(first)]]

AfterFunc_Immediate(t) == [state |-> "armed", when |-> t, first |-> t]
\* time.AfterFunc(b.duration, f): a timer that fires no earlier than
\* duration after the call.
AfterFunc(t) == [state |-> "armed", when |-> t + Duration, first |-> t]

NewTimer_Nil(ts) == Nil
\* b.timeout = time.AfterFunc(...): the timer just made is recorded.
NewTimer(ts) == Len(ts) + 1

TimerStop_Noop(ts, i) == ts
\* b.timeout.Stop(): prevents the timer from firing unless it already has.
TimerStop(ts, i) ==
  IF ts[i].state = "armed" THEN [ts EXCEPT ![i].state = "stopped"] ELSE ts

IsExpectedTimeout_Any(event, h) == TRUE
\* hit, ok := event.Payload().GetTime(EventPairFirstTimePayload);
\* ok && hit.Equal(*b.hit)
IsExpectedTimeout(event, h) ==
  LET r == GetTime(event.payload, "first") IN r[2] /\ r[1] = h

TimeoutIsDue_NoGuard(event, h, t) == GetTime(event.payload, "first")[2]
\* b.hit != nil && b.timeout != nil, then the check of the first-hit time:
\* the event is the reminder of the pending hit.
TimeoutIsDue(event, h, t) == h # Nil /\ t # Nil /\ IsExpectedTimeout(event, h)

LateSecondHit_NoWindow(n, h) == n - h > 0
\* now.Sub(*b.hit) > b.duration
LateSecondHit(n, h) == n - h > Duration

\* emitPair: the pair event; id is the number of the first hit it resolves
\* (an observation, not part of the payload).
PairEvent(timestamp, data) ==
  [topic |-> EventPairTopic,
   payload |-> [first |-> TimeValue(hit), firstData |-> DataValue(hitData),
                second |-> TimeValue(timestamp), secondData |-> DataValue(data)],
   id |-> Len(hits)]

\* emitTimeout: the timeout event, stamped with time.Now().
TimeoutEvent ==
  [topic |-> EventPairTimeoutTopic,
   payload |-> [first |-> TimeValue(hit), firstData |-> DataValue(hitData),
                timeout |-> TimeValue(now)],
   id |-> Len(hits)]

NoEvent == [topic |-> "none", payload |-> [none |-> TRUE]]

InitPair ==
  /\ now = 1
  /\ hit = Nil
  /\ hitData = Nil
  /\ timeout = Nil
  /\ timers = <<>>
  /\ queue = <<>>
  /\ emitted = <<>>
  /\ nExt = 0
  /\ hits = <<>>
  /\ last = [event |-> NoEvent, hit |-> Nil, hitData |-> Nil, timeout |-> Nil,
             emitted |-> 0, nhits |-> 0, called |-> FALSE, prior |-> Nil]

\* Time passes.
Tick ==
  /\ now < MaxTime
  /\ now' = now + 1
  /\ UNCHANGED <<hit, hitData, timeout, timers, queue, emitted, nExt, hits, last>>
  /\ UNCHANGED <<wvars, cvars, avars, yvars>>

\* Other code emits an event to the cell.
EmitExternal(e) ==
  /\ nExt < MaxEvents
  /\ nExt' = nExt + 1
  /\ queue' = Append(queue, e)
  /\ UNCHANGED <<now, hit, hitData, timeout, timers, emitted, hits, last>>
  /\ UNCHANGED <<wvars, cvars, avars, yvars>>

\* The runtime fires an armed timer whose time has come and starts its
\* callback in a goroutine of its own.
TimerFire(i) ==
  /\ timers[i].state = "armed"
  /\ now >= timers[i].when
  /\ timers' = [timers EXCEPT ![i].state = "fired"]
  /\ UNCHANGED <<now, hit, hitData, timeout, queue, emitted, nExt, hits, last>>
  /\ UNCHANGED <<wvars, cvars, avars, yvars>>

\* The timer callback runs: b.cell.Environment().EmitNew(b.cell.ID(), ...).
TimerEmit(i) ==
  /\ timers[i].state = "fired"
  /\ timers' = [timers EXCEPT ![i].state = "done"]
  /\ queue' = Append(queue, TimerEvent(timers[i].first))
  /\ UNCHANGED <<now, hit, hitData, timeout, emitted, nExt, hits, last>>
  /\ UNCHANGED <<wvars, cvars, avars, yvars>>

\* What ProcessEvent finds when it is called with event.
Snapshot(event, called) ==
  [event |-> event, hit |-> hit, hitData |-> hitData, timeout |-> timeout,
   emitted |-> Len(emitted), nhits |-> Len(hits), called |-> called,
   prior |-> IF called THEN hitData ELSE Nil]

\* case EventPairTimeoutTopic of ProcessEvent.
ProcessTimeoutEvent(event) ==
  /\ last' = Snapshot(event, FALSE)
  /\ IF TimeoutIsDue(event, hit, timeout)
       THEN /\ emitted' = Append(emitted, TimeoutEvent)
            /\ hit' = Nil
            /\ timeout' = Nil
            /\ hits' = [hits EXCEPT ![Len(hits)].res = "timeout",
                                    ![Len(hits)].idle = (hit' = Nil /\ timeout' = Nil)]
            /\ UNCHANGED <<hitData, timers>>
       ELSE UNCHANGED <<hit, hitData, timeout, timers, emitted, hits>>

\* default case of ProcessEvent: the criterion is asked.
ProcessOtherEvent(event) ==
  LET m == matches(event, hitData) IN
  /\ last' = Snapshot(event, TRUE)
  /\ IF ~m[2]
       THEN UNCHANGED <<hit, hitData, timeout, timers, emitted, hits>>
       ELSE IF hit = Nil
         THEN \* first hit: store time and data, start the timeout reminder
              /\ hit' = now
              /\ hitData' = m[1]
              /\ timers' = Append(timers, AfterFunc(now))
              /\ timeout' = NewTimer(timers)
              /\ hits' = Append(hits, [first |-> now, data |-> m[1], res |-> "pending",
                                       second |-> Nil, secondData |-> Nil,
                                       idle |-> FALSE])
              /\ UNCHANGED emitted
         ELSE \* second hit: stop the timer, then timeout or pair
              /\ timers' = TimerStop(timers, timeout)
              /\ timeout' = Nil
              /\ hit' = Nil
              /\ UNCHANGED hitData
              /\ IF LateSecondHit(now, hit)
                   THEN /\ emitted' = Append(emitted, TimeoutEvent)
                        /\ hits' = [hits EXCEPT ![Len(hits)].res = "timeout",
                                                ![Len(hits)].second = now,
                                                ![Len(hits)].secondData = m[1],
                                                ![Len(hits)].idle = (hit' = Nil /\ timeout' = Nil)]
                   ELSE /\ emitted' = Append(emitted, PairEvent(now, m[1]))
                        /\ hits' = [hits EXCEPT ![Len(hits)].res = "pair",
                                                ![Len(hits)].second = now,
                                                ![Len(hits)].secondData = m[1],
                                                ![Len(hits)].idle = (hit' = Nil /\ timeout' = Nil)]

\* The bound of the clock: a first hit is processed only while the clock
\* can still reach the end of its window.
WithinHorizon(event) ==
  (event.topic # EventPairTimeoutTopic /\ matches(event, hitData)[2] /\ hit = Nil)
    => now + Duration <= MaxTime

\* The cell takes the next event from its queue and calls ProcessEvent.
ProcessEvent ==
  /\ queue # <<>>
  /\ WithinHorizon(Head(queue))
  /\ queue' = Tail(queue)
  /\ IF Head(queue).topic = EventPairTimeoutTopic
       THEN ProcessTimeoutEvent(Head(queue))
       ELSE ProcessOtherEvent(Head(queue))
  /\ UNCHANGED <<now, nExt>>
  /\ UNCHANGED <<wvars, cvars, avars, yvars>>

NextPair ==
  \/ Tick
  \/ \E e \in ExternalEvents : EmitExternal(e)
  \/ \E i \in DOMAIN timers : TimerFire(i)
  \/ \E i \in DOMAIN timers : TimerEmit(i)
  \/ ProcessEvent

\* ------------------------------------------------------------ payload

DefaultPayload == "default"

\* NewPayload: a Payload is used directly, the content of a PayloadValues
\* or a map is copied, any other value is stored under DefaultPayload.
NewPayload(values) ==
  IF values.type = "Payload"
    THEN values.val
    ELSE IF values.type \in {"PayloadValues", "map"}
      THEN [key \in DOMAIN values.val |-> values.val[key]]
      ELSE (DefaultPayload :> values)

\* payload.Get: the value under key and whether the key is present.
Get(p, key) == IF key \in DOMAIN p THEN <<p[key], TRUE>> ELSE <<Nil, FALSE>>

\* payload.GetWaiter: the waiter under key and true when the key is
\* present and holds a PayloadWaiter; nil and false otherwise.
GetWaiter(p, key) ==
  LET r == Get(p, key) IN
  IF r[2] /\ r[1].type = "PayloadWaiter" THEN <<r[1].val, TRUE>> ELSE <<Nil, FALSE>>

\* payloadWaiter.Set run to its end by a single caller: the once guard,
\* then the send into the channel.
Set(w, p) ==
  IF OnceFastPath(w.once.done) \/ ~OnceSlowRun(w.once.done)
    THEN w
    ELSE [payloadc |-> Append(w.payloadc, p), once |-> [done |-> 1, m |-> 0]]

\* -------------------------------------------------- typed accessors

\* The dynamic types of the values stored: the seven types the accessors
\* ask for, int64 (the underlying type of time.Duration, a different
\* type than int and than time.Duration) and the nil interface value.
ValueTypes ==
  {"bool", "int", "float64", "string", "time", "duration", "PayloadWaiter",
   "int64", "nil"}

\* The values of these types: per type the zero value (0) and another one.
StoredValues ==
  {[type |-> t, val |-> v] : t \in ValueTypes \ {"nil"}, v \in {0, 1}}
    \cup {[type |-> "nil", val |-> Nil]}

PayloadKeyNames == {DefaultPayload, "k"}

\* The key/value mappings over the key names.
Mappings(values) ==
  UNION {[ks -> values] : ks \in SUBSET PayloadKeyNames}

TypeAssert_Coerce(raw, t) ==
  IF raw.type # "nil" THEN <<raw.val, TRUE>> ELSE <<Nil, FALSE>>
\* value, ok := raw.(T): the value and true when the dynamic type of raw
\* is T, the zero value of T and false otherwise.
TypeAssert(raw, t) ==
  IF raw.type = t THEN <<raw.val, TRUE>> ELSE <<Nil, FALSE>>

\* payload.GetBool
GetBool(p, key) ==
  LET r == Get(p, key) IN
  IF ~r[2] THEN <<Nil, FALSE>> ELSE TypeAssert(r[1], "bool")

\* payload.GetInt
GetInt(p, key) ==
  LET r == Get(p, key) IN
  IF ~r[2] THEN <<Nil, FALSE>> ELSE TypeAssert(r[1], "int")

\* payload.GetFloat64
GetFloat64(p, key) ==
  LET r == Get(p, key) IN
  IF ~r[2] THEN <<Nil, FALSE>> ELSE TypeAssert(r[1], "float64")

\* payload.GetString
GetString(p, key) ==
  LET r == Get(p, key) IN
  IF ~r[2] THEN <<Nil, FALSE>> ELSE TypeAssert(r[1], "string")

\* payload.GetDuration
GetDuration(p, key) ==
  LET r == Get(p, key) IN
  IF ~r[2] THEN <<Nil, FALSE>> ELSE TypeAssert(r[1], "duration")

Accessors ==
  {"GetBool", "GetInt", "GetFloat64", "GetString", "GetTime", "GetDuration",
   "GetWaiter"}

\* The call p.acc(key).
CallOf(acc, p, key) ==
  CASE acc = "GetBool" -> GetBool(p, key)
    [] acc = "GetInt" -> GetInt(p, key)
    [] acc = "GetFloat64" -> GetFloat64(p, key)
    [] acc = "GetString" -> GetString(p, key)
    [] acc = "GetTime" -> GetTime(p, key)
    [] acc = "GetDuration" -> GetDuration(p, key)
    [] acc = "GetWaiter" -> GetWaiter(p, key)

NoGet == [acc |-> "none", key |-> "", res |-> <<Nil, FALSE>>]

InitAccessors ==
  /\ stored = <<>>
  /\ lastGet = NoGet

\* cells.NewPayload(values) with a key/value mapping, of either map type,
\* or with a single value.
MakePayload(values) ==
  /\ stored' = NewPayload(values)
  /\ lastGet' = NoGet
  /\ UNCHANGED <<wvars, pvars, cvars, yvars>>

\* One of the typed accessors is called on the payload.
CallAccessor(acc, key) ==
  /\ lastGet' = [acc |-> acc, key |-> key, res |-> CallOf(acc, stored, key)]
  /\ UNCHANGED stored
  /\ UNCHANGED <<wvars, pvars, cvars, yvars>>

NextAccessors ==
  \/ \E values \in {[type |-> t, val |-> m] :
                      t \in {"PayloadValues", "map"}, m \in Mappings(StoredValues)}
                     \cup StoredValues : MakePayload(values)
  \/ \E acc \in Accessors, key \in PayloadKeyNames : CallAccessor(acc, key)

\* ------------------------------------- payloads and their value maps

\* The caller's mapping, a PayloadValues or map[string]interface{} it
\* made and keeps changing.
CallerRef == 1

\* The values the caller puts into its mapping or passes alone.
CallerValues == {[type |-> "int", val |-> 1], [type |-> "string", val |-> 1]}

\* The keys a caller writes into a slice of keys: the key names and one
\* that is no key of any payload.
SliceKeys == PayloadKeyNames \cup {"z"}

\* The orders in which a range over a map with these keys can visit them.
Orders(ks) ==
  {o \in [1..Cardinality(ks) -> ks] : \A i, j \in DOMAIN o : o[i] = o[j] => i = j}

\* payload.Len
PayloadLen(p) == Cardinality(DOMAIN p)

\* payload.Keys: the keys, in the order the range visited them.
PayloadKeys(p) == Orders(DOMAIN p)

\* payload.Do with a function that returns no error: the (key, value)
\* pairs the function is called with.
PayloadDo(p) == {<<key, p[key]>> : key \in DOMAIN p}

Apply_ReceiverWins(p, values) ==
  LET over == NewPayload(values) IN
  [key \in DOMAIN p \cup DOMAIN over |->
     IF key \in DOMAIN p THEN p[key] ELSE over[key]]
\* payload.Apply: a new map with the entries of p.values, then the entries
\* of a Payload (by its Do), of a PayloadValues or of a map written over
\* them, or any other value written under DefaultPayload.
Apply(p, values) ==
  LET copy == [key \in DOMAIN p |-> p[key]]
      over == IF values.type = "Payload"
                THEN [key \in {e[1] : e \in PayloadDo(values.val)} |-> values.val[key]]
                ELSE IF values.type \in {"PayloadValues", "map"}
                  THEN values.val
                  ELSE (DefaultPayload :> values)
  IN [key \in DOMAIN copy \cup DOMAIN over |->
        IF key \in DOMAIN over THEN over[key] ELSE copy[key]]

AllocValues_Alias(h) == CallerRef
\* &payload{values: PayloadValues{}}: the reference of a new, empty map.
AllocValues(h) == Len(h) + 1

\* The entries written into the map at ref (a new map is added to memory).
WriteValues(h, ref, entries) ==
  IF ref \in DOMAIN h THEN [h EXCEPT ![ref] = entries] ELSE Append(h, entries)

\* The argument of NewPayload or Apply as the callee reads it: a Payload
\* and a mapping are read through their reference.
Deref(values) ==
  IF values.type = "Payload"
    THEN [type |-> "Payload", val |-> heap[pls[values.val].values]]
    ELSE IF values.type \in {"PayloadValues", "map"}
      THEN [type |-> values.type, val |-> heap[values.val]]
      ELSE values

\* The arguments the caller passes: a payload made before, its mapping
\* as either map type, or a single value.
Arguments ==
  {[type |-> "Payload", val |-> i] : i \in DOMAIN pls}
    \cup {[type |-> t, val |-> CallerRef] : t \in {"PayloadValues", "map"}}
    \cup CallerValues

NoCall == [op |-> "none", p |-> 0, before |-> <<>>,
           arg |-> [type |-> "nil", val |-> Nil], res |-> 0]

InitPayload ==
  /\ heap = <<<<>>>>
  /\ pls = <<>>
  /\ slice = <<>>
  /\ lastCall = NoCall

\* The caller sets a key of its mapping; it has dropped the slice of keys
\* it held and the call before is no longer the last thing done.
CallerSet(key, value) ==
  /\ heap' = [heap EXCEPT ![CallerRef] = (key :> value) @@ @]
  /\ slice' = <<>>
  /\ lastCall' = NoCall
  /\ UNCHANGED pls
  /\ UNCHANGED <<wvars, pvars, cvars, avars>>

\* The caller deletes a key of its mapping.
CallerDelete(key) ==
  /\ key \in DOMAIN heap[CallerRef]
  /\ heap' = [heap EXCEPT ![CallerRef] =
                [k \in DOMAIN @ \ {key} |-> @[k]]]
  /\ slice' = <<>>
  /\ lastCall' = NoCall
  /\ UNCHANGED pls
  /\ UNCHANGED <<wvars, pvars, cvars, avars>>

\* cells.NewPayload(values): a Payload is returned as it is; otherwise a
\* payload with a map of its own is made and the entries are written.
CallNewPayload(values) ==
  /\ Len(pls) < MaxPayloads
  /\ IF values.type = "Payload"
       THEN /\ lastCall' = [NoCall EXCEPT !.op = "NewPayload", !.res = values.val]
            /\ UNCHANGED <<heap, pls>>
       ELSE LET ref == AllocValues(heap)
                entries == NewPayload(Deref(values))
            IN /\ heap' = WriteValues(heap, ref, entries)
               /\ pls' = Append(pls, [values |-> ref, made |-> entries])
               /\ lastCall' = [NoCall EXCEPT !.op = "NewPayload",
                                             !.res = Len(pls) + 1]
  /\ slice' = <<>>
  /\ UNCHANGED <<wvars, pvars, cvars, avars>>

\* pls[i].Apply(values)
CallApply(i, values) ==
  /\ Len(pls) < MaxPayloads
  /\ LET ref == AllocValues(heap)
         entries == Apply(heap[pls[i].values], Deref(values))
     IN /\ heap' = WriteValues(heap, ref, entries)
        /\ pls' = Append(pls, [values |-> ref, made |-> entries])
        /\ lastCall' = [op |-> "Apply", p |-> i, before |-> heap[pls[i].values],
                        arg |-> Deref(values), res |-> Len(pls) + 1]
  /\ slice' = <<>>
  /\ UNCHANGED <<wvars, pvars, cvars, avars>>

\* pls[i].Keys(): the caller gets a new slice of the keys; it asks the
\* payload it got last.
CallKeys(i) ==
  /\ i = Len(pls)
  /\ \E keys \in PayloadKeys(heap[pls[i].values]) : slice' = keys
  /\ lastCall' = [NoCall EXCEPT !.op = "Keys", !.p = i]
  /\ UNCHANGED <<heap, pls>>
  /\ UNCHANGED <<wvars, pvars, cvars, avars>>

\* The caller overwrites an element of the slice Keys returned.
SliceSet(n, key) ==
  /\ lastCall.op = "Keys"
  /\ n \in DOMAIN slice
  /\ slice[n] # key
  /\ slice' = [slice EXCEPT ![n] = key]
  /\ UNCHANGED <<heap, pls, lastCall>>
  /\ UNCHANGED <<wvars, pvars, cvars, avars>>

NextPayload ==
  \/ \E key \in PayloadKeyNames, value \in CallerValues : CallerSet(key, value)
  \/ \E key \in PayloadKeyNames : CallerDelete(key)
  \/ \E values \in Arguments : CallNewPayload(values)
  \/ \E i \in DOMAIN pls, values \in Arguments : CallApply(i, values)
  \/ \E i \in DOMAIN pls : CallKeys(i)
  \/ \E n \in DOMAIN slice, key \in SliceKeys : SliceSet(n, key)

\* ----------------------------------------------------- counter behavior

TopicCount == "count"
TopicReset == "reset"
TopicRequest == "request"

\* The key lists of the count events: those of the test and one with a
\* key twice.
KeyLists == {<<"a", "b">>, <<"a", "c", "d">>, <<"a", "d">>, <<"b", "b">>}

Keys == UNION {{keys[j] : j \in DOMAIN keys} : keys \in KeyLists}

\* cf of the test: the []string stored under the default key, or none.
CounterFunc(event) ==
  LET r == Get(event.payload, DefaultPayload) IN
  IF r[2] /\ r[1].type = "strings" THEN r[1].val ELSE <<>>

Increment_Once(c, key) ==
  IF key \in DOMAIN c THEN c ELSE c @@ (key :> 1)
\* The counter of key goes up by one; a key not yet counted starts at one.
Increment(c, key) ==
  IF key \in DOMAIN c THEN [c EXCEPT ![key] = @ + 1] ELSE c @@ (key :> 1)

RECURSIVE IncrementAll(_, _)
\* The counter of every key of the list goes up, once per occurrence.
IncrementAll(c, keys) ==
  IF keys = <<>> THEN c ELSE IncrementAll(Increment(c, Head(keys)), Tail(keys))

\* The counters after a reset: none.
ResetCounters_Keep(c) == c
ResetCounters(c) == <<>>

InitCounter ==
  /\ cqueue = <<>>
  /\ counters = <<>>
  /\ creqs = <<>>
  /\ clog = <<>>

\* No snapshot request is blocked in Wait: the driver can emit.
DriverFree == \A r \in DOMAIN creqs : creqs[r].state # "waiting"

\* env.EmitNew(ctx, "counter", "count", keys)
EmitCount(keys) ==
  /\ DriverFree
  /\ Len(clog) < MaxCounterEvents
  /\ cqueue' = Append(cqueue, [topic |-> TopicCount,
                               payload |-> NewPayload([type |-> "strings", val |-> keys])])
  /\ clog' = Append(clog, [topic |-> TopicCount, keys |-> keys])
  /\ UNCHANGED <<counters, creqs>>
  /\ UNCHANGED <<wvars, pvars, avars, yvars>>

\* env.EmitNew(ctx, "counter", cells.TopicReset, nil)
EmitReset ==
  /\ DriverFree
  /\ Len(clog) < MaxCounterEvents
  /\ cqueue' = Append(cqueue, [topic |-> TopicReset,
                               payload |-> NewPayload([type |-> "nil", val |-> Nil])])
  /\ clog' = Append(clog, [topic |-> TopicReset, keys |-> <<>>])
  /\ UNCHANGED <<counters, creqs>>
  /\ UNCHANGED <<wvars, pvars, avars, yvars>>

\* behaviors.RequestCounterResults: emits the request with a new waiter
\* and goes on to Wait with a context that times out.
RequestCounterResults ==
  /\ DriverFree
  /\ Len(creqs) < MaxRequests
  /\ creqs' = Append(creqs, [waiter |-> NewPayloadWaiter, ctx |-> "live",
                             state |-> "waiting", result |-> DoneResult,
                             at |-> Len(clog)])
  /\ cqueue' = Append(cqueue, [topic |-> TopicRequest,
                               payload |-> NewPayload(
                                 [type |-> "PayloadValues",
                                  val |-> [waiter |-> [type |-> "PayloadWaiter",
                                                       val |-> Len(creqs) + 1]]])])
  /\ UNCHANGED <<counters, clog>>
  /\ UNCHANGED <<wvars, pvars, avars, yvars>>

\* The timeout of the request's context expires.
RequestTimeout(r) ==
  /\ creqs[r].state = "waiting"
  /\ creqs[r].ctx = "live"
  /\ creqs' = [creqs EXCEPT ![r].ctx = "cancelled"]
  /\ UNCHANGED <<cqueue, counters, clog>>
  /\ UNCHANGED <<wvars, pvars, avars, yvars>>

\* Wait of the request receives the snapshot.
RequestWaitRecv(r) ==
  /\ creqs[r].state = "waiting"
  /\ Len(creqs[r].waiter.payloadc) > 0
  /\ creqs' = [creqs EXCEPT ![r].state = "replied",
                            ![r].result = RecvResult(creqs[r].waiter.payloadc),
                            ![r].waiter.payloadc = ChanAfterRecv(@)]
  /\ UNCHANGED <<cqueue, counters, clog>>
  /\ UNCHANGED <<wvars, pvars, avars, yvars>>

\* Wait of the request returns the context's error.
RequestWaitDone(r) ==
  /\ creqs[r].state = "waiting"
  /\ CtxDone(creqs[r].ctx)
  /\ creqs' = [creqs EXCEPT ![r].state = "failed", ![r].result = DoneResult]
  /\ UNCHANGED <<cqueue, counters, clog>>
  /\ UNCHANGED <<wvars, pvars, avars, yvars>>

\* The counter cell processes its next event: a reset clears the counters,
\* a request deposits a snapshot of them in the request's waiter, any
\* other event is counted under the keys the counter function returns.
ProcessCounterEvent ==
  /\ cqueue # <<>>
  /\ cqueue' = Tail(cqueue)
  /\ LET event == Head(cqueue) IN
     IF event.topic = TopicReset
       THEN /\ counters' = ResetCounters(counters)
            /\ UNCHANGED creqs
       ELSE IF event.topic = TopicRequest
         THEN LET w == GetWaiter(event.payload, "waiter") IN
              /\ creqs' = IF w[2]
                             THEN [creqs EXCEPT ![w[1]].waiter =
                                     Set(@, NewPayload([type |-> "PayloadValues",
                                                        val |-> counters]))]
                             ELSE creqs
              /\ UNCHANGED counters
         ELSE /\ counters' = IncrementAll(counters, CounterFunc(event))
              /\ UNCHANGED creqs
  /\ UNCHANGED clog
  /\ UNCHANGED <<wvars, pvars, avars, yvars>>

NextCounter ==
  \/ \E keys \in KeyLists : EmitCount(keys)
  \/ EmitReset
  \/ RequestCounterResults
  \/ \E r \in DOMAIN creqs : RequestTimeout(r)
  \/ \E r \in DOMAIN creqs : RequestWaitRecv(r)
  \/ \E r \in DOMAIN creqs : RequestWaitDone(r)
  \/ ProcessCounterEvent

vars == <<wvars, pvars, cvars, avars, yvars>>

Init == InitWaiter /\ InitPair /\ InitCounter /\ InitAccessors /\ InitPayload

SpecAccessors == Init /\ [][NextAccessors]_vars

SpecPayload == Init /\ [][NextPayload]_vars

SpecCounter == Init /\ [][NextCounter]_vars

SpecWaiter == Init /\ [][NextWaiter]_vars

\* The Go scheduler runs every goroutine that can take a step: a Set call
\* past its entry and a Wait whose select has a ready case make progress.
FairWaiter ==
  /\ SpecWaiter
  /\ \A s \in Setters : WF_vars(SetStep(s))
  /\ \A w \in Waiters : WF_vars(WaitStep(w))

SpecPair == Init /\ [][NextPair]_vars

\* Time passes, due timers fire, their callbacks run and the cell works
\* off its queue.
FairPair ==
  /\ SpecPair
  /\ WF_vars(Tick)
  /\ WF_vars(\E i \in DOMAIN timers : TimerFire(i))
  /\ WF_vars(\E i \in DOMAIN timers : TimerEmit(i))
  /\ WF_vars(ProcessEvent)

\* ----------------------------------------------- claims on the waiter

\* C1: of any number of Set calls, sequential or concurrent, only the first
\* one has effect: at most one payload is ever sent, whatever sits in the
\* channel is the first Set's payload, and a payload returned by Wait is
\* the first Set's payload.
C1_FirstSetWins ==
  /\ sends <= 1
  /\ \A i \in DOMAIN payloadc : payloadc[i] = firstSet
  /\ \A w \in Waiters : waitRes[w].pl # Nil => waitRes[w].pl = firstSet

\* C1 witness: a Wait returned the first Set's payload after a Set call
\* with a different payload has returned too.
C1_Witness ==
  \E w \in Waiters :
    /\ waitPc[w] = "done"
    /\ firstSet # Nil
    /\ waitRes[w].pl = firstSet
    /\ \E p \in setsDone : p # firstSet

\* C2: once a payload has been deposited, every Wait whose
\* context is never cancelled returns that payload with no error. Stated
\* for the runs in which every Wait was called with a nil context, which
\* can never be cancelled.
C2_EveryWaitReturnsPayload ==
  \A w \in Waiters :
    (sends >= 1 /\ \A v \in Waiters : waitPc[v] # "idle" /\ waitCtx[v] = "nil")
      ~> (waitPc[w] = "done" /\ waitRes[w] = [pl |-> firstSet, err |-> NoErr])

\* C3 (as stated): a Wait invoked with an already cancelled context
\* returns the cancellation error and no payload and consumes nothing,
\* even when a payload has been deposited.
C3_CancelledWaitNeverConsumes ==
  \A w \in Waiters :
    (waitPc[w] = "done" /\ waitAtCall[w]) =>
      /\ waitRes[w] = [pl |-> Nil, err |-> ErrCanceled]
      /\ waitLeft[w] = waitSaw[w]

\* C3 (amended): a Wait invoked with an already cancelled context returns
\* the cancellation error and no payload, consuming nothing, when no
\* payload is in the waiter; when a payload has been deposited it returns
\* either that error, leaving the payload, or the payload with no error.
C3_CancelledWait ==
  \A w \in Waiters :
    (waitPc[w] = "done" /\ waitAtCall[w]) =>
      \/ /\ waitRes[w] = [pl |-> Nil, err |-> ErrCanceled]
         /\ waitLeft[w] = waitSaw[w]
      \/ /\ waitSaw[w] = 1
         /\ waitLeft[w] = 0
         /\ waitRes[w] = [pl |-> firstSet, err |-> NoErr]

\* C3 witness: a Wait called with a cancelled context on a waiter holding
\* a payload returned the cancellation error and left the payload.
C3_Witness ==
  \E w \in Waiters :
    /\ waitPc[w] = "done" /\ waitAtCall[w]
    /\ waitSaw[w] = 1 /\ waitLeft[w] = 1
    /\ waitRes[w] = [pl |-> Nil, err |-> ErrCanceled]

\* C4: Set never blocks: a Set call that reaches the channel send can
\* always send, and a Set call waiting for the mutex of the once waits for
\* a holder that is itself about to send or to release, so every Set call
\* can always complete whatever the Wait callers do.
C4_SetNeverBlocks ==
  \A s \in Setters :
    /\ setPc[s] = "send" => ENABLED SetSend(s)
    /\ setPc[s] = "store" => ENABLED SetOnceStore(s)
    /\ setPc[s] = "unlock" => ENABLED SetOnceUnlock(s)
    /\ setPc[s] = "lock" =>
          \/ ENABLED SetOnceLock(s)
          \/ \E h \in Setters :
               once.m = h /\ setPc[h] \in {"send", "store", "unlock"}

\* C4 witness: two Set calls with different payloads have returned while
\* no Wait was ever called and the first payload still fills the buffer.
C4_Witness ==
  /\ \A w \in Waiters : waitPc[w] = "idle"
  /\ \A s \in Setters : setPc[s] = "ret"
  /\ Len(payloadc) = 1
  /\ Cardinality(setsDone) >= 2

\* C5: a Wait on a waiter that was never Set returns only after its
\* context was cancelled, with no payload and the cancellation error, and
\* a Wait whose context is cancelled eventually returns.
C5_WaitCancellation ==
  /\ [](\A w \in Waiters :
          (waitPc[w] = "done" /\ sends = 0) =>
             /\ waitCtx[w] = "cancelled"
             /\ waitRes[w] = [pl |-> Nil, err |-> ErrCanceled])
  /\ \A w \in Waiters :
       (waitPc[w] = "select" /\ waitCtx[w] = "cancelled") ~> (waitPc[w] = "done")

\* C5 witness: a Wait called with a live context on a waiter that was
\* never Set returned the cancellation error after the context was
\* cancelled.
C5_Witness ==
  \E w \in Waiters :
    /\ waitPc[w] = "done" /\ ~waitAtCall[w]
    /\ \A s \in Setters : setPc[s] = "idle"
    /\ waitCtx[w] = "cancelled"
    /\ waitRes[w] = [pl |-> Nil, err |-> ErrCanceled]

\* ---------------------------------------- claims on the pair behavior

\* The emitted events that resolve first hit number i.
EventsFor(i) == {k \in DOMAIN emitted : emitted[k].id = i}

\* C6: a first hit followed by a second matching event less than Duration
\* later is answered by exactly one emitted event, the pair event with the
\* first time, the first data, the second time and the second data, and
\* never by a timeout event.
C6_PairMatch ==
  \A i \in DOMAIN hits :
    (hits[i].second # Nil /\ hits[i].second - hits[i].first < Duration) =>
      /\ Cardinality(EventsFor(i)) = 1
      /\ \A k \in EventsFor(i) :
           /\ emitted[k].topic = EventPairTopic
           /\ emitted[k].payload =
                [first |-> TimeValue(hits[i].first),
                 firstData |-> DataValue(hits[i].data),
                 second |-> TimeValue(hits[i].second),
                 secondData |-> DataValue(hits[i].secondData)]

\* C6 witness: a second match came one tick after the first hit, the pair
\* was emitted, and the clock has since passed the end of the window.
C6_Witness ==
  \E i \in DOMAIN hits :
    /\ hits[i].second # Nil
    /\ hits[i].second - hits[i].first < Duration
    /\ hits[i].res = "pair"
    /\ now >= hits[i].first + Duration
    /\ Cardinality(EventsFor(i)) = 1

\* First hit number i has been resolved as the claim C7 says: the behavior
\* was idle afterwards (hit nil, timer forgotten) and exactly one event was
\* emitted for it, which is the timeout event with the first time and the
\* first data unless a second match came within Duration of the first.
ResolvedHit(i) ==
  /\ hits[i].res # "pending"
  /\ hits[i].idle
  /\ Cardinality(EventsFor(i)) = 1
  /\ \A k \in EventsFor(i) :
       \/ /\ hits[i].res = "timeout"
          /\ emitted[k].topic = EventPairTimeoutTopic
          /\ emitted[k].payload.first = TimeValue(hits[i].first)
          /\ emitted[k].payload.firstData = DataValue(hits[i].data)
       \/ /\ hits[i].res = "pair"
          /\ hits[i].second # Nil
          /\ hits[i].second - hits[i].first <= Duration

\* C7: every first hit is eventually resolved, and when no second match is
\* processed within Duration of it, by exactly one timeout event carrying
\* the first time and the first data, the behavior being idle afterwards.
C7_PairTimeout ==
  \A i \in 1..MaxEvents : (Len(hits) >= i) ~> (Len(hits) >= i /\ ResolvedHit(i))

\* C7 witness: a first hit with no second match was resolved by the
\* delivered reminder: one timeout event, hit nil and no timer recorded.
C7_Witness ==
  \E i \in DOMAIN hits :
    /\ hits[i].res = "timeout"
    /\ hits[i].second = Nil
    /\ ResolvedHit(i)
    /\ last.event.topic = EventPairTimeoutTopic
    /\ hit = Nil /\ timeout = Nil

\* The timeout-check event ProcessEvent was last called with was stale:
\* the behavior was idle, or the event's first-hit time is not the stored
\* hit.
LastWasStale ==
  /\ last.event.topic = EventPairTimeoutTopic
  /\ \/ last.hit = Nil
     \/ GetTime(last.event.payload, "first") # <<last.hit, TRUE>>

\* C8: processing a stale timeout-check event emits nothing and leaves
\* hit, hitData and the pending timer as they were.
C8_StaleReminder ==
  LastWasStale =>
    /\ hit = last.hit
    /\ hitData = last.hitData
    /\ timeout = last.timeout
    /\ timeout # Nil => timers[timeout].state # "stopped"
    /\ Len(emitted) = last.emitted

\* C8 witness: the reminder of an earlier hit was processed while a later
\* hit was pending.
C8_Witness ==
  /\ LastWasStale
  /\ last.hit # Nil
  /\ GetTime(last.event.payload, "first")[2]
  /\ hit = last.hit

\* C9: at every call of the criterion priorHitData is nil when no hit is
\* pending and is the data stored at the first hit when one is pending.
C9_PriorHitData ==
  last.called =>
    /\ last.hit = Nil => last.prior = Nil
    /\ last.hit # Nil => last.prior = hits[last.nhits].data

\* The time an emitted event was stamped with: the second hit of a pair,
\* the time of the timeout.
StampOf(e) ==
  IF e.topic = EventPairTopic THEN e.payload.second.val ELSE e.payload.timeout.val

\* C14: when ProcessEvent was called with a matching event while a hit was
\* pending, the timer is stopped and no longer recorded, one event was
\* emitted for the pending hit, a timeout if it is stamped later than
\* duration after the hit and a pair otherwise, and the behavior is idle
\* with no new hit recorded.
C14_SecondMatch ==
  (last.called /\ last.event.payload.match /\ last.hit # Nil) =>
    /\ hit = Nil
    /\ timeout = Nil
    /\ timers[last.timeout].state # "armed"
    /\ Len(hits) = last.nhits
    /\ Len(emitted) = last.emitted + 1
    /\ LET e == emitted[Len(emitted)] IN
       /\ e.topic \in {EventPairTopic, EventPairTimeoutTopic}
       /\ e.payload.first = TimeValue(last.hit)
       /\ (e.topic = EventPairTimeoutTopic) <=> (StampOf(e) - last.hit > Duration)

\* C14 witness: a second match was processed later than duration after the
\* hit, when the timer had fired and its reminder was already emitted; it
\* was answered with a timeout event.
C14_Witness ==
  /\ last.called
  /\ last.event.payload.match
  /\ last.hit # Nil
  /\ timers[last.timeout].state = "done"
  /\ Len(emitted) = last.emitted + 1
  /\ emitted[Len(emitted)].topic = EventPairTimeoutTopic
  /\ hit = Nil

\* C15: every timeout event emitted is stamped no earlier than duration
\* after the first hit it reports.
C15_TimeoutNotEarly ==
  \A k \in DOMAIN emitted :
    emitted[k].topic = EventPairTimeoutTopic =>
      emitted[k].payload.timeout.val >= emitted[k].payload.first.val + Duration

\* C15 witness: a timeout event triggered by the reminder and stamped
\* exactly duration after the first hit.
C15_Witness ==
  \E k \in DOMAIN emitted :
    /\ emitted[k].topic = EventPairTimeoutTopic
    /\ emitted[k].payload.timeout.val = emitted[k].payload.first.val + Duration
    /\ hits[emitted[k].id].second = Nil

\* C16: a step of a timer callback leaves hit, hitData, the timer field
\* and the emitted events as they are and adds to the queue of the cell
\* the timeout-check event with the first-hit time of the hit the timer
\* was started for; hit, hitData and the timer field change only in steps
\* that take an event from the queue.
C16_TimerCallback ==
  /\ [][\A i \in DOMAIN timers :
          (timers[i].state = "fired" /\ timers'[i].state = "done") =>
            /\ UNCHANGED <<hit, hitData, timeout, emitted>>
            /\ queue' = Append(queue,
                               [topic |-> EventPairTimeoutTopic,
                                payload |-> [first |-> TimeValue(hits[i].first)]])]_vars
  /\ [][<<hit, hitData, timeout>>' # <<hit, hitData, timeout>>
          => (queue # <<>> /\ queue' = Tail(queue))]_vars

\* C16 witness: the callback of the timer of a hit has run after the hit
\* was resolved by a second match; its reminder, with the time of that
\* hit, is in the queue while hit is nil.
C16_Witness ==
  \E i \in DOMAIN timers :
    /\ timers[i].state = "done"
    /\ hits[i].res = "pair"
    /\ hit = Nil
    /\ \E q \in DOMAIN queue :
         queue[q] = [topic |-> EventPairTimeoutTopic,
                     payload |-> [first |-> TimeValue(hits[i].first)]]

\* C17: a step that processes an event of another topic than the timeout
\* topic which the criterion does not match leaves hit, hitData, the timer
\* field, the timers and the emitted events unchanged.
C17_NonMatchIgnored ==
  [][(/\ queue # <<>>
      /\ queue' = Tail(queue)
      /\ Head(queue).topic # EventPairTimeoutTopic
      /\ ~Head(queue).payload.match)
       => UNCHANGED <<hit, hitData, timeout, timers, emitted>>]_vars

\* C17 witness: a non-matching event was processed while a hit was pending
\* and its timer armed, and both are as they were.
C17_Witness ==
  /\ last.called
  /\ ~last.event.payload.match
  /\ last.hit # Nil
  /\ hit = last.hit
  /\ hitData = last.hitData
  /\ timeout = last.timeout
  /\ timers[timeout].state = "armed"
  /\ Len(emitted) = last.emitted

\* C18: the behavior is idle, with hit nil and no timer recorded, or
\* pending, with hit set and a timer recorded.
C18_IdleOrPending ==
  \/ hit = Nil /\ timeout = Nil
  \/ hit # Nil /\ timeout \in DOMAIN timers

\* C18 witness: after a hit was resolved and ProcessEvent has handled a
\* further match, the behavior is pending again.
C18_Witness ==
  /\ last.called
  /\ last.hit = Nil
  /\ Len(hits) >= 2
  /\ hits[1].res # "pending"
  /\ hit # Nil
  /\ timeout \in DOMAIN timers

\* C19: at most one event is emitted for each first hit, and none while
\* the hit is pending.
C19_AtMostOneResolution ==
  \A i \in DOMAIN hits :
    /\ Cardinality(EventsFor(i)) <= 1
    /\ hits[i].res = "pending" => EventsFor(i) = {}

\* C19 witness: the race: the timer of a hit fired, the second match was
\* processed first and resolved the hit, then the reminder of the timer
\* was processed; one event stands for the hit.
C19_Witness ==
  \E i \in DOMAIN hits :
    /\ hits[i].second # Nil
    /\ timers[i].state = "done"
    /\ last.event = [topic |-> EventPairTimeoutTopic,
                     payload |-> [first |-> TimeValue(hits[i].first)]]
    /\ last.nhits = i
    /\ last.emitted >= 1
    /\ Cardinality(EventsFor(i)) = 1

\* ------------------------------------- claims on the counter behavior

\* The index of the last reset among the first n emitted events, or 0.
LastReset(n) ==
  LET rs == {i \in 1..n : clog[i].topic = TopicReset} IN
  IF rs = {} THEN 0 ELSE CHOOSE i \in rs : \A j \in rs : j <= i

\* How often key is returned for the count events among the first n
\* emitted events that follow the last reset.
Occurrences(key, n) ==
  Cardinality({ij \in UNION {{<<i, j>> : j \in DOMAIN clog[i].keys} :
                                  i \in LastReset(n) + 1 .. n} :
                 clog[ij[1]].keys[ij[2]] = key})

\* C10: the snapshot a request returns maps each key to the number of
\* times the key function returned it over the count events emitted before
\* the request and after the last reset, and holds no other key.
C10_SnapshotCounts ==
  \A r \in DOMAIN creqs :
    creqs[r].state = "replied" =>
      /\ creqs[r].result.err = NoErr
      /\ DOMAIN creqs[r].result.pl =
           {key \in Keys : Occurrences(key, creqs[r].at) > 0}
      /\ \A key \in DOMAIN creqs[r].result.pl :
           creqs[r].result.pl[key] = Occurrences(key, creqs[r].at)

\* C10 witness: the scenario of the test: after the key lists {a,b},
\* {a,c,d}, {a,d} the snapshot is a:3, b:1, c:1, d:2.
C10_Witness ==
  \E r \in DOMAIN creqs :
    /\ creqs[r].state = "replied"
    /\ creqs[r].at = 3
    /\ SubSeq(clog, 1, 3) = <<[topic |-> TopicCount, keys |-> <<"a", "b">>],
                              [topic |-> TopicCount, keys |-> <<"a", "c", "d">>],
                              [topic |-> TopicCount, keys |-> <<"a", "d">>]>>
    /\ creqs[r].result.pl = [a |-> 3, b |-> 1, c |-> 1, d |-> 2]

\* C11: a snapshot requested right after a reset is empty whatever was
\* counted before, a key counted once after a reset is reported as one,
\* and processing the reset clears the counters and answers no request.
C11_ResetClears ==
  /\ [](\A r \in DOMAIN creqs :
          creqs[r].state = "replied" =>
            /\ (creqs[r].at > 0 /\ LastReset(creqs[r].at) = creqs[r].at)
                  => DOMAIN creqs[r].result.pl = {}
            /\ LastReset(creqs[r].at) > 0 =>
                  \A key \in DOMAIN creqs[r].result.pl :
                    Occurrences(key, creqs[r].at) = 1
                      => creqs[r].result.pl[key] = 1)
  /\ [][(cqueue # <<>> /\ Head(cqueue).topic = TopicReset /\ cqueue' = Tail(cqueue))
         => (counters' = <<>> /\ creqs' = creqs)]_vars

\* C11 witness: keys were counted, a reset followed, and the snapshot
\* requested next came back empty.
C11_Witness ==
  \E r \in DOMAIN creqs :
    /\ creqs[r].state = "replied"
    /\ creqs[r].at = 2
    /\ clog[1].topic = TopicCount
    /\ clog[2].topic = TopicReset
    /\ DOMAIN creqs[r].result.pl = {}

\* ------------------------------------------------ claims on the payload

\* The entries an argument of Apply lays over the receiver's.
AppliedEntries(arg) ==
  IF arg.type \in {"Payload", "PayloadValues", "map"}
    THEN arg.val
    ELSE (DefaultPayload :> arg)

\* C12: after p.Apply(values) the entries of p are those it had before the
\* call, and the keys of the result are the keys of p and the applied keys
\* together, each applied key with the applied value and every other key
\* with the value p has for it.
C12_ApplyOverlay ==
  lastCall.op = "Apply" =>
    LET p == heap[pls[lastCall.p].values]
        res == heap[pls[lastCall.res].values]
        over == AppliedEntries(lastCall.arg)
    IN /\ DOMAIN p = DOMAIN lastCall.before
       /\ \A key \in DOMAIN p : p[key] = lastCall.before[key]
       /\ DOMAIN res = DOMAIN lastCall.before \cup DOMAIN over
       /\ \A key \in DOMAIN res :
            res[key] = IF key \in DOMAIN over THEN over[key]
                                              ELSE lastCall.before[key]

\* C12 witness: Apply was called with another Payload on a payload that
\* shares a key with it under a different value and has a key of its own.
C12_Witness ==
  /\ lastCall.op = "Apply"
  /\ lastCall.arg.type = "Payload"
  /\ lastCall.arg.val # lastCall.before
  /\ \E key \in DOMAIN lastCall.before \cap DOMAIN lastCall.arg.val :
       lastCall.before[key] # lastCall.arg.val[key]
  /\ DOMAIN lastCall.before \ DOMAIN lastCall.arg.val # {}
  /\ heap[pls[lastCall.p].values] = lastCall.before
  /\ heap[pls[lastCall.res].values] # lastCall.before

\* C20: what Len, Get, Keys and Do observe on a payload is what they
\* observed when it was made, whatever the caller has done since to its
\* mapping and to a slice of keys it got.
C20_OwnCopy ==
  \A i \in DOMAIN pls :
    LET p == heap[pls[i].values] IN
    /\ PayloadLen(p) = Cardinality(DOMAIN pls[i].made)
    /\ \A key \in SliceKeys : Get(p, key) = Get(pls[i].made, key)
    /\ PayloadKeys(p) = Orders(DOMAIN pls[i].made)
    /\ PayloadDo(p) = {<<key, pls[i].made[key]>> : key \in DOMAIN pls[i].made}

\* C20 witness: a payload was made from the caller's mapping; since then
\* the caller has changed a value of the mapping, removed a key from it
\* and overwritten a key in the slice that Keys returned for the payload.
C20_Witness ==
  /\ lastCall.op = "Keys"
  /\ Len(pls) = 1
  /\ \E key \in DOMAIN pls[lastCall.p].made : key \notin DOMAIN heap[CallerRef]
  /\ \E key \in DOMAIN pls[lastCall.p].made \cap DOMAIN heap[CallerRef] :
       pls[lastCall.p].made[key] # heap[CallerRef][key]
  /\ slice \notin PayloadKeys(pls[lastCall.p].made)

\* The type each typed accessor asks for.
RequestedType(acc) ==
  CASE acc = "GetBool" -> "bool"
    [] acc = "GetInt" -> "int"
    [] acc = "GetFloat64" -> "float64"
    [] acc = "GetString" -> "string"
    [] acc = "GetTime" -> "time"
    [] acc = "GetDuration" -> "duration"
    [] acc = "GetWaiter" -> "PayloadWaiter"

\* C13: a typed accessor reports found exactly when the key is present
\* and the value under it has the type the accessor asks for, and then
\* returns that value; otherwise it returns the zero value and false.
C13_TypedAccessors ==
  lastGet.acc # "none" =>
    LET found == /\ lastGet.key \in DOMAIN stored
                 /\ stored[lastGet.key].type = RequestedType(lastGet.acc)
    IN /\ lastGet.res[2] = found
       /\ found => lastGet.res[1] = stored[lastGet.key].val
       /\ ~found => lastGet.res[1] = Nil

\* C13 witness: GetInt on a key that holds a non-zero string returned
\* (0, false).
C13_Witness ==
  /\ lastGet.acc = "GetInt"
  /\ lastGet.key = "k"
  /\ "k" \in DOMAIN stored
  /\ stored["k"] = [type |-> "string", val |-> 1]
  /\ lastGet.res = <<Nil, FALSE>>

====
